---- MODULE Spec2Model ----
(***************************************************************************)
(* A model of the Elgato Light client (src/src/elgato/elgato.py): the      *)
(* request executor _request, the has-battery cache, the requires_battery  *)
(* guard and the public operations, run by several asyncio callers that    *)
(* share one client.  A caller's step runs from one await of the network   *)
(* to the next, as the event loop runs it.                                 *)
(***************************************************************************)
EXTENDS Integers, Sequences, FiniteSets, TLC

\* Number of callers that use the client at the same time.
NumTasks == 2
Tasks == 1..NumTasks

VARIABLES
    kwargs,          \* the keyword arguments the callers give to light()
    session,         \* Elgato.session: "None", "internal" (made by the client) or "external"
    closed,          \* the session object has been closed
    scope,           \* per caller: it is inside `async with` on the client
    device,          \* the settings the device holds
    _close_session,  \* Elgato._close_session
    _has_battery,    \* Elgato._has_battery: None, Some(TRUE) or Some(FALSE)
    op,              \* per caller: the public operation it runs
    stage,           \* per caller: which call of the operation awaits the request
    pc,              \* per caller: position inside _request
    args,            \* per caller: keyword arguments that live across an await
    reqs,            \* per caller: method and URL of the requests this call has issued
    inflight,        \* per caller: the request that awaits its response
    resp,            \* per caller: the response whose body is being read
    expired,         \* per caller: request_timeout seconds went by since the request was sent
    result           \* per caller: how the last call ended

vars == <<kwargs, session, closed, scope, device, _close_session, _has_battery, op, stage, pc,
          args, reqs, inflight, resp, expired, result>>

----------------------------------------------------------------------------
\* Python values

\* Optional values: None, or a value.
None == <<>>
Some(v) == <<v>>

\* bool(x) of an optional number: None and 0 are false.
Truthy(x) == x # None /\ x[1] # 0

\* int(b) of a bool.
IntOfBool(b) == IF b THEN 1 ELSE 0

\* dict: a function from its keys.
EmptyDict == [k \in {} |-> 0]
DictSet(d, k, v) == [x \in (DOMAIN d) \cup {k} |-> IF x = k THEN v ELSE d[x]]
DictGet(d, k, default) == IF k \in DOMAIN d THEN d[k] ELSE default

\* needle in hay, for strings held as sequences of tokens.
Contains(needle, hay) ==
    \E i \in 1..(Len(hay) + 1) :
        /\ i + Len(needle) - 1 <= Len(hay)
        /\ SubSeq(hay, i, i + Len(needle) - 1) = needle

----------------------------------------------------------------------------
\* Exceptions (exceptions.py) and the ones of asyncio, aiohttp and socket

ExceptionParent ==
    [ElgatoError |-> "Exception",
     ElgatoConnectionError |-> "ElgatoError",
     ElgatoNoBatteryError |-> "Exception",
     TimeoutError |-> "Exception",
     ClientError |-> "Exception",
     ClientResponseError |-> "ClientError",
     gaierror |-> "Exception",
     KeyError |-> "Exception",
     IndexError |-> "Exception",
     RuntimeError |-> "Exception",
     Exception |-> "Exception"]

\* issubclass(cls, base)
RECURSIVE IsSubclass(_, _)
IsSubclass(cls, base) ==
    IF cls = base THEN TRUE
    ELSE IF cls = "Exception" THEN FALSE
    ELSE IsSubclass(ExceptionParent[cls], base)

\* ElgatoNoBatteryError.__init__: the message when none is given.
NoBatteryMessage == "The Elgato light does not have a battery."

NoDetail == [k \in {} |-> <<>>]

Raised(cls, msg, detail) == [kind |-> "raised", exc |-> cls, msg |-> msg, detail |-> detail,
                             value |-> "", flag |-> FALSE]
Returned(value, flag) == [kind |-> "returned", exc |-> "", msg |-> "", detail |-> NoDetail,
                          value |-> value, flag |-> flag]
NoResult == [kind |-> "none", exc |-> "", msg |-> "", detail |-> NoDetail,
             value |-> "", flag |-> FALSE]

ElgatoNoBatteryError == Raised("ElgatoNoBatteryError", NoBatteryMessage, NoDetail)

----------------------------------------------------------------------------
\* What the device and the transport can answer

\* The statuses a response can carry (the transport follows redirects itself).
StatusCodes == {200, 204, 400, 404, 500, 503}
StatusSamples == {200, 404}

CT_JSON == <<"application/json">>
CT_JSON_UTF8 == <<"application/json", ";", "charset=utf-8">>
CT_TEXT == <<"text/plain", ";", "charset=utf-8">>
ApplicationJson == <<"application/json">>

\* Response headers: with or without a Content-Type.
HeaderSets ==
    {EmptyDict} \cup
    {DictSet(EmptyDict, "Content-Type", ct) : ct \in {CT_JSON, CT_JSON_UTF8, CT_TEXT}}
HeaderSamples == {DictSet(EmptyDict, "Content-Type", ct) : ct \in {CT_JSON, CT_TEXT}}

\* Energy saving settings as the device reports them.
EnergySaving(en, level, wifi, aen, ab) ==
    [enable |-> en, minimumBatteryLevel |-> level, disableWifi |-> wifi,
     adjustBrightness |-> [enable |-> aen, brightness |-> ab]]

EnergySavingValues == {EnergySaving(0, 15, 0, 0, 10), EnergySaving(1, 20, 1, 1, 30)}

\* The battery part of a lights/settings reply: absent, or present.
BatteryValues ==
    {None} \cup {Some([energySaving |-> es, bypass |-> 0]) : es \in EnergySavingValues}
BatterySamples == {None, Some([energySaving |-> EnergySaving(0, 15, 0, 0, 10), bypass |-> 0])}

\* The other settings of a lights/settings reply, as the JSON object that holds
\* them: the power-on hue, saturation and temperature are there or not.
KeyLightSettings ==
    [k \in {"colorChangeDurationMs", "powerOnBehavior", "powerOnBrightness",
            "powerOnTemperature", "switchOffDurationMs", "switchOnDurationMs"} |->
        CASE k = "colorChangeDurationMs" -> 100
          [] k = "powerOnBehavior" -> 1
          [] k = "powerOnBrightness" -> 20
          [] k = "powerOnTemperature" -> 213
          [] k = "switchOffDurationMs" -> 300
          [] k = "switchOnDurationMs" -> 100]
StripSettings ==
    [k \in {"colorChangeDurationMs", "powerOnBehavior", "powerOnBrightness", "powerOnHue",
            "powerOnSaturation", "powerOnTemperature", "switchOffDurationMs",
            "switchOnDurationMs"} |->
        CASE k = "colorChangeDurationMs" -> 150
          [] k = "powerOnBehavior" -> 2
          [] k = "powerOnBrightness" -> 40
          [] k = "powerOnHue" -> 40
          [] k = "powerOnSaturation" -> 15
          [] k = "powerOnTemperature" -> 0
          [] k = "switchOffDurationMs" -> 400
          [] k = "switchOnDurationMs" -> 150]
BareSettings ==
    [k \in {"colorChangeDurationMs", "powerOnBehavior", "powerOnBrightness",
            "switchOffDurationMs", "switchOnDurationMs"} |-> KeyLightSettings[k]]
SettingsValues == {KeyLightSettings, StripSettings, BareSettings}

\* The settings a device holds: the battery part and the rest.
Device(battery, settings) == [battery |-> battery, settings |-> settings]
DeviceValues == {Device(b, s) : b \in BatteryValues, s \in SettingsValues}
KeyLight == Device(None, KeyLightSettings)

\* The lights array of a lights reply: the key missing, an empty array, one light.
LightsValues == {"missing", "empty", "one"}

\* What a battery-info reply says of the charging: the voltage in mV and the
\* current in mA.
ChargeInfo(v, c) == [inputChargeVoltage |-> v, inputChargeCurrent |-> c]
ChargeSample == ChargeInfo(4208, 3008)
ChargeVoltages == {0, 5, 125, 375, 1005, 3746, 4205, 4208, 4215, 5000, 12000, 20155}
ChargeCurrents == {0, 1, 100, 500, 1500, 2675, 3005, 3008, 4999, 5000}
ChargeValues == {ChargeInfo(v, c) : v \in ChargeVoltages, c \in ChargeCurrents}

\* A JSON object with neither key, and a body that is not JSON.
NoBody == [raw |-> "json", battery |-> None, lights |-> "missing", settings |-> EmptyDict,
           info |-> None]
TextBody == [raw |-> "text", battery |-> None, lights |-> "missing", settings |-> EmptyDict,
             info |-> None]

\* A battery-info reply.
BatteryInfoBody(i) == [NoBody EXCEPT !.info = Some(i)]

\* The bodies the device can send in answer to a request, under given headers.
Bodies(req, headers, batteries) ==
    IF ~Contains(<<"application/json">>, DictGet(headers, "Content-Type", <<>>))
    THEN {TextBody}
    ELSE IF req.method = "GET" /\ req.url = <<"elgato", "lights", "settings">>
    THEN {[raw |-> "json", battery |-> b, lights |-> "missing",
           settings |-> device.settings, info |-> None] : b \in batteries}
    ELSE IF req.method = "GET" /\ req.url = <<"elgato", "lights">>
    THEN {[raw |-> "json", battery |-> None, lights |-> l, settings |-> EmptyDict,
           info |-> None] : l \in LightsValues}
    ELSE IF req.method = "GET" /\ req.url = <<"elgato", "battery-info">>
    THEN {BatteryInfoBody(ChargeSample)}
    ELSE {NoBody}

\* A device that stores what is written to lights/settings: the keys of the
\* battery object written replace those it holds, and so do the other keys.
Written(held, data) ==
    [k \in (DOMAIN held) \cup (DOMAIN data) |-> IF k \in DOMAIN data THEN data[k] ELSE held[k]]
DeviceAfter(dev, req) ==
    IF req.method = "PUT" /\ req.url = <<"elgato", "lights", "settings">> /\ req.data # None
    THEN LET data == req.data[1]
             rest == [k \in (DOMAIN data) \ {"battery"} |-> data[k]]
         IN  Device(IF "battery" \in DOMAIN data /\ dev.battery # None
                    THEN Some(Written(dev.battery[1], data["battery"]))
                    ELSE dev.battery,
                    Written(dev.settings, rest))
    ELSE dev

\* What _request holds of a response while it reads the body: the content type
\* it found and the body.
NoResponse == [content_type |-> <<>>, body |-> NoBody]

----------------------------------------------------------------------------
\* Keyword arguments

NoArgs == [on |-> None, minimum_battery_level |-> None, disable_wifi |-> None,
           adjust_brightness |-> None, brightness |-> None,
           behavior |-> None, hue |-> None, temperature |-> None]

BypassArgs(on) == [NoArgs EXCEPT !.on = Some(on)]

EnergySavingInputs ==
    {NoArgs,
     [NoArgs EXCEPT !.on = Some(TRUE)],
     [NoArgs EXCEPT !.brightness = Some(20), !.adjust_brightness = Some(FALSE)]}
EnergySavingSamples == {NoArgs, [NoArgs EXCEPT !.on = Some(TRUE)]}

\* energy_saving() with every set of overrides.
EnergySavingOverrides ==
    {[NoArgs EXCEPT !.on = o, !.minimum_battery_level = l, !.disable_wifi = w,
                    !.adjust_brightness = e, !.brightness = b] :
        o \in {None, Some(TRUE), Some(FALSE)}, l \in {None, Some(20)},
        w \in {None, Some(TRUE)}, e \in {None, Some(TRUE)}, b \in {None, Some(30)}}

\* power_on_behavior() with every set of overrides; behavior is a PowerOnBehavior.
PowerOnInputs ==
    {[NoArgs EXCEPT !.behavior = v, !.brightness = b, !.hue = h, !.temperature = k] :
        v \in {None, Some(2)}, b \in {None, Some(0)},
        h \in {None, Some(0)}, k \in {None, Some(300)}}
PowerOnSamples ==
    {NoArgs, [NoArgs EXCEPT !.behavior = Some(2), !.brightness = Some(0)]}

OnValues == {None, Some(TRUE), Some(FALSE)}
BrightnessValues == {None, Some(-1), Some(0), Some(100), Some(101)}
HueValues == {None, Some(-1), Some(0), Some(360), Some(361)}
SaturationValues == {None, Some(-1), Some(0), Some(100), Some(101)}
TemperatureValues == {None, Some(0), Some(142), Some(143), Some(344), Some(345)}

\* A few light() calls, for the runs in which every operation takes part.
LightSamples ==
    {[on |-> Some(TRUE), brightness |-> Some(100), hue |-> None, saturation |-> None,
      temperature |-> Some(275)],
     [on |-> None, brightness |-> Some(101), hue |-> None, saturation |-> None,
      temperature |-> None]}
LightSample == {[on |-> Some(TRUE), brightness |-> Some(100), hue |-> None,
                 saturation |-> None, temperature |-> Some(275)]}

LightInputs ==
    [on : OnValues, brightness : BrightnessValues, hue : HueValues,
     saturation : SaturationValues, temperature : TemperatureValues]

----------------------------------------------------------------------------
\* The client as constructed, with or without a session of the caller's, and
\* callers that have called nothing yet.
Constructed ==
    /\ session \in {"None", "external"}
    /\ closed = FALSE
    /\ scope = [t \in Tasks |-> FALSE]
    /\ _close_session = FALSE
    /\ _has_battery = None
    /\ op = [t \in Tasks |-> "none"]
    /\ stage = [t \in Tasks |-> "none"]
    /\ pc = [t \in Tasks |-> "idle"]
    /\ args = [t \in Tasks |-> NoArgs]
    /\ reqs = [t \in Tasks |-> <<>>]
    /\ inflight = [t \in Tasks |-> None]
    /\ resp = [t \in Tasks |-> NoResponse]
    /\ expired = [t \in Tasks |-> FALSE]
    /\ result = [t \in Tasks |-> NoResult]

Init == kwargs \in LightSample /\ device = KeyLight /\ Constructed

InitSerial == kwargs \in LightSamples /\ device = KeyLight /\ Constructed

InitLight == kwargs \in LightInputs /\ device = KeyLight /\ Constructed

----------------------------------------------------------------------------
\* Requests

\* URL.build(path="/elgato/").join(URL(uri)): a relative uri is appended to the
\* base path, an absolute one replaces it.
BasePath == <<"elgato">>
Rel(path) == [absolute |-> FALSE, path |-> path]
Abs(path) == [absolute |-> TRUE, path |-> path]
UrlJoin(uri) == IF uri.absolute THEN uri.path ELSE BasePath \o uri.path

Request(method, uri, data) == [method |-> method, url |-> UrlJoin(uri), data |-> data]
NoRequest == Request("", Rel(<<>>), None)
\* What the log of a call keeps of a request.
Sent(req) == [method |-> req.method, url |-> req.url]

\* The next thing a caller does: send a request and await it, or end the call.
SendEff(stg, method, uri, data) ==
    [kind |-> "send", stage |-> stg, req |-> Request(method, uri, data), res |-> NoResult]
FinishEff(res) == [kind |-> "finish", stage |-> "none", req |-> NoRequest, res |-> res]

\* _request, up to the await of session.request: the session is made when there
\* is none.
SessionAfterRequest == IF session = "None" THEN "internal" ELSE session
\* The ownership flag set by every request, whoever made the session.
CloseSessionAlways == TRUE
CloseSessionAfterRequest == IF session = "None" THEN TRUE ELSE _close_session

\* session.request on a session that was closed raises RuntimeError, and sends
\* nothing.
SessionClosed == Raised("RuntimeError", "Session is closed", NoDetail)
Attempt(eff) == IF eff.kind = "send" /\ closed THEN FinishEff(SessionClosed) ELSE eff

\* raise_for_status: raises for an error status.
\* A status check that raises for the server errors only.
RaisesForServerError(status) == status >= 500
RaisesForStatus(status) == status >= 400

\* The except clauses of _request: what an exception raised inside the try
\* block becomes.
TimeoutMessage == "Timeout occurred while connecting to Elgato Light device"
CommunicationMessage == "Error occurred while communicating with Elgato Light device"
UnexpectedMessage == "Unexpected response from the Elgato Light device"

ExceptClauses(exc) ==
    IF IsSubclass(exc, "TimeoutError")
    THEN Raised("ElgatoConnectionError", TimeoutMessage, NoDetail)
    ELSE IF IsSubclass(exc, "ClientError") \/ IsSubclass(exc, "gaierror")
    THEN Raised("ElgatoConnectionError", CommunicationMessage, NoDetail)
    ELSE Raised(exc, "", NoDetail)

\* response.headers.get("Content-Type", "")
ContentType(headers) == DictGet(headers, "Content-Type", <<>>)

\* "application/json" not in content_type
\* A content type check that refuses a missing header only.
IsMissing(content_type) == content_type = <<>>
IsUnexpected(content_type) == ~Contains(ApplicationJson, content_type)

\* The ElgatoError of an unexpected response.
UnexpectedResponse(content_type, text) ==
    Raised("ElgatoError", UnexpectedMessage,
           DictSet(DictSet(EmptyDict, "Content-Type", Some(content_type)), "response", Some(text)))

----------------------------------------------------------------------------
\* light(): validation and the state sent

BrightnessValid(b) == 0 <= b /\ b <= 100
HueValid(h) == 0 <= h /\ h <= 360
SaturationValid(s) == 0 <= s /\ s <= 100
\* A range check that leaves the bounds out.
TemperatureValidExclusive(k) == 143 < k /\ k < 344
TemperatureValid(k) == 143 <= k /\ k <= 344

\* if temperature and (hue or saturation)
ExclusiveConflict(a) == Truthy(a.temperature) /\ (Truthy(a.hue) \/ Truthy(a.saturation))

\* A state dictionary that leaves out the parameters that are false or 0.
LightStateTruthy(a) ==
    LET s0 == EmptyDict
        s1 == IF a.on # None /\ a.on[1] THEN DictSet(s0, "on", 1) ELSE s0
        s2 == IF Truthy(a.brightness) THEN DictSet(s1, "brightness", a.brightness[1]) ELSE s1
        s3 == IF Truthy(a.hue) THEN DictSet(s2, "hue", a.hue[1]) ELSE s2
        s4 == IF Truthy(a.saturation) THEN DictSet(s3, "saturation", a.saturation[1]) ELSE s3
        s5 == IF Truthy(a.temperature) THEN DictSet(s4, "temperature", a.temperature[1]) ELSE s4
    IN  s5

\* The state dictionary, one key per parameter that is not None.
LightState(a) ==
    LET s0 == EmptyDict
        s1 == IF a.on # None THEN DictSet(s0, "on", IntOfBool(a.on[1])) ELSE s0
        s2 == IF a.brightness # None THEN DictSet(s1, "brightness", a.brightness[1]) ELSE s1
        s3 == IF a.hue # None THEN DictSet(s2, "hue", a.hue[1]) ELSE s2
        s4 == IF a.saturation # None THEN DictSet(s3, "saturation", a.saturation[1]) ELSE s3
        s5 == IF a.temperature # None THEN DictSet(s4, "temperature", a.temperature[1]) ELSE s4
    IN  s5

\* The message of the ElgatoError light() raises, "" when it raises none.
LightError(a) ==
    IF ExclusiveConflict(a)
    THEN "Cannot set temperature together with hue or saturation"
    ELSE IF a.brightness # None /\ ~BrightnessValid(a.brightness[1])
    THEN "Brightness not between 0 and 100"
    ELSE IF a.hue # None /\ ~HueValid(a.hue[1])
    THEN "Hue not between 0 and 360"
    ELSE IF a.saturation # None /\ ~SaturationValid(a.saturation[1])
    THEN "Saturation not between 0 and 100"
    ELSE IF a.temperature # None /\ ~TemperatureValid(a.temperature[1])
    THEN "Color temperature out of range"
    ELSE IF DOMAIN LightState(a) = {}
    THEN "No parameters to set, light not adjusted"
    ELSE ""

\* A body that counts the keys of the state.
LightDataCounted(a) ==
    [numberOfLights |-> Cardinality(DOMAIN LightState(a)), lights |-> <<LightState(a)>>]

\* The body of the PUT.
LightData(a) == [numberOfLights |-> 1, lights |-> <<LightState(a)>>]

LightEff(a) ==
    IF LightError(a) # ""
    THEN FinishEff(Raised("ElgatoError", LightError(a), NoDetail))
    ELSE SendEff("main", "PUT", Rel(<<"lights">>), Some(LightData(a)))

----------------------------------------------------------------------------
\* The battery operations

SettingsUri == Rel(<<"lights", "settings">>)
SettingsPutUri == Abs(<<"elgato", "lights", "settings">>)

\* A merge that takes a flag that is not given for false.
EnergySavingDataDefaults(current, a) ==
    [enable |-> IntOfBool(a.on = Some(TRUE)),
     minimumBatteryLevel |->
        IF a.minimum_battery_level # None
        THEN a.minimum_battery_level[1] ELSE current.minimumBatteryLevel,
     disableWifi |-> IntOfBool(a.disable_wifi = Some(TRUE)),
     adjustBrightness |->
        [enable |-> IntOfBool(a.adjust_brightness = Some(TRUE)),
         brightness |->
            IF a.brightness # None THEN a.brightness[1] ELSE current.adjustBrightness.brightness]]

\* A merge that stops at the first override that is given.
EnergySavingDataFirst(current, a) ==
    IF a.on # None THEN [current EXCEPT !.enable = IntOfBool(a.on[1])]
    ELSE IF a.minimum_battery_level # None
    THEN [current EXCEPT !.minimumBatteryLevel = a.minimum_battery_level[1]]
    ELSE IF a.disable_wifi # None
    THEN [current EXCEPT !.disableWifi = IntOfBool(a.disable_wifi[1])]
    ELSE IF a.adjust_brightness # None
    THEN [current EXCEPT !.adjustBrightness.enable = IntOfBool(a.adjust_brightness[1])]
    ELSE IF a.brightness # None
    THEN [current EXCEPT !.adjustBrightness.brightness = a.brightness[1]]
    ELSE current

\* energy_saving: the overrides laid over the energy saving settings just read.
EnergySavingData(current, a) ==
    LET d1 == IF a.on # None THEN [current EXCEPT !.enable = IntOfBool(a.on[1])] ELSE current
        d2 == IF a.minimum_battery_level # None
              THEN [d1 EXCEPT !.minimumBatteryLevel = a.minimum_battery_level[1]] ELSE d1
        d3 == IF a.disable_wifi # None
              THEN [d2 EXCEPT !.disableWifi = IntOfBool(a.disable_wifi[1])] ELSE d2
        d4 == IF a.adjust_brightness # None
              THEN [d3 EXCEPT !.adjustBrightness.enable = IntOfBool(a.adjust_brightness[1])]
              ELSE d3
        d5 == IF a.brightness # None
              THEN [d4 EXCEPT !.adjustBrightness.brightness = a.brightness[1]] ELSE d4
    IN  d5

\* round() of Python on the quotient of two integers that are not negative.
\* The quotient n / d is a float: the double next to the exact quotient.

RECURSIVE PowerOfTwo(_, _)
\* 2^e % d
PowerOfTwo(e, d) ==
    IF e = 0 THEN 1 % d
    ELSE LET half == PowerOfTwo(e \div 2, d)
         IN  IF e % 2 = 0 THEN (half * half) % d ELSE (2 * half * half) % d

\* (r * 2^e) % d
Doubled(r, e, d) == ((r % d) * PowerOfTwo(e, d)) % d

RECURSIVE Scale(_, _, _)
\* The e for which the significand n * 2^e / d of n / d has 53 bits, for n > 0;
\* e starts at 52.
Scale(n, d, e) ==
    IF n < d THEN Scale(2 * n, d, e + 1)
    ELSE IF 2 * d <= n THEN Scale(n, 2 * d, e - 1)
    ELSE e

\* Where the float n / d lies: 1 when above the exact quotient, -1 when below,
\* 0 when it is the exact quotient.
FloatError(n, d) ==
    IF n = 0 THEN 0
    ELSE LET rest == Doubled(n % d, Scale(n, d, 52), d)
         IN  IF rest = 0 THEN 0 ELSE IF 2 * rest > d THEN 1 ELSE -1

\* Of two neighbours lo and lo + 1 that are as near, round() takes the even one.
HalfEven(lo) == IF lo % 2 = 0 THEN lo ELSE lo + 1

\* round(n / d): the nearest integer. A quotient that ends in .5 is that float.
Round(n, d) ==
    LET lo == n \div d
        rest == n % d
    IN  IF 2 * rest < d THEN lo ELSE IF 2 * rest > d THEN lo + 1 ELSE HalfEven(lo)

\* round(n / 1_000, 2), counted in hundredths: the hundredth nearest to the
\* float n / 1_000, which lies above or below a quotient that ends in 5
\* thousandths unless it is that quotient.
Round2(n) ==
    LET lo == n \div 10
        rest == n % 10
    IN  IF rest < 5 THEN lo
        ELSE IF rest > 5 THEN lo + 1
        ELSE IF FloatError(n, 1000) > 0 THEN lo + 1
        ELSE IF FloatError(n, 1000) < 0 THEN lo
        ELSE HalfEven(lo)

\* BatteryInfo: the fields of the charging under their own names.
ParseBatteryInfo(data) ==
    [input_charge_voltage |-> data.inputChargeVoltage,
     input_charge_current |-> data.inputChargeCurrent]

\* An input charge power that drops the fraction.
InputChargePowerFloor(m) == (m.input_charge_voltage * m.input_charge_current) \div 1000

\* BatteryInfo.input_charge_power, in mW.
input_charge_power(m) == Round(m.input_charge_voltage * m.input_charge_current, 1000)

\* BatteryInfo.charge_current, in hundredths of A.
charge_current(m) == Round2(m.input_charge_current)

\* BatteryInfo.charge_power, in hundredths of W.
charge_power(m) == Round2(input_charge_power(m))

\* BatteryInfo.charge_voltage, in hundredths of V.
charge_voltage(m) == Round2(m.input_charge_voltage)

\* battery() returns the BatteryInfo: what its caller reads of it.
BatteryInfoReturned(m) ==
    [Returned("BatteryInfo", FALSE) EXCEPT
        !.detail = [k \in {"input_charge_voltage", "input_charge_current", "input_charge_power",
                           "charge_current", "charge_power", "charge_voltage"} |->
                      CASE k = "input_charge_voltage" -> Some(m.input_charge_voltage)
                        [] k = "input_charge_current" -> Some(m.input_charge_current)
                        [] k = "input_charge_power" -> Some(input_charge_power(m))
                        [] k = "charge_current" -> Some(charge_current(m))
                        [] k = "charge_power" -> Some(charge_power(m))
                        [] k = "charge_voltage" -> Some(charge_voltage(m))]]

\* BatterySettings.parse_obj: the fields under their own names, the flags as
\* bool.
BoolOfInt(n) == n # 0
ParseEnergySaving(data) ==
    [adjust_brightness |-> [brightness |-> data.adjustBrightness.brightness,
                            enabled |-> BoolOfInt(data.adjustBrightness.enable)],
     disable_wifi |-> BoolOfInt(data.disableWifi),
     enabled |-> BoolOfInt(data.enable),
     minimum_battery_level |-> data.minimumBatteryLevel]
ParseBatterySettings(data) ==
    [energy_saving |-> ParseEnergySaving(data.energySaving), bypass |-> BoolOfInt(data.bypass)]

\* EnergySavingSettings.dict(by_alias=True): the fields under the names of the
\* wire, a flag as the 1 or 0 it is equal to.
EnergySavingDict(m) ==
    [enable |-> IntOfBool(m.enabled),
     minimumBatteryLevel |-> m.minimum_battery_level,
     disableWifi |-> IntOfBool(m.disable_wifi),
     adjustBrightness |-> [enable |-> IntOfBool(m.adjust_brightness.enabled),
                           brightness |-> m.adjust_brightness.brightness]]
BatterySettingsDict(m) ==
    [energySaving |-> EnergySavingDict(m.energy_saving), bypass |-> IntOfBool(m.bypass)]

\* The body energy_saving() sends with the battery settings whole.
EnergySavingBodyWhole(current_settings, a) ==
    [battery |->
        [energySaving |-> EnergySavingData(EnergySavingDict(current_settings.energy_saving), a),
         bypass |-> IntOfBool(current_settings.bypass)]]

\* The body energy_saving() sends.
EnergySavingBody(current_settings, a) ==
    [battery |->
        [energySaving |-> EnergySavingData(EnergySavingDict(current_settings.energy_saving), a)]]

\* Settings.parse_obj: the fields under their own names, the optional ones None
\* when the key is missing.
Optional(d, k) == IF k \in DOMAIN d THEN Some(d[k]) ELSE None
ParseSettings(data) ==
    [color_change_duration |-> data.settings["colorChangeDurationMs"],
     power_on_behavior |-> data.settings["powerOnBehavior"],
     power_on_brightness |-> data.settings["powerOnBrightness"],
     switch_off_duration |-> data.settings["switchOffDurationMs"],
     switch_on_duration |-> data.settings["switchOnDurationMs"],
     battery |-> IF data.battery = None
                 THEN None ELSE Some(ParseBatterySettings(data.battery[1])),
     power_on_hue |-> Optional(data.settings, "powerOnHue"),
     power_on_saturation |-> Optional(data.settings, "powerOnSaturation"),
     power_on_temperature |-> Optional(data.settings, "powerOnTemperature")]

\* Settings.dict(by_alias=True, exclude_none=True): the fields under the names
\* of the wire, those that are None left out.
Unless(d, k, v) == IF v = None THEN d ELSE DictSet(d, k, v[1])
SettingsDict(m) ==
    LET d0 == [k \in {"colorChangeDurationMs", "powerOnBehavior", "powerOnBrightness",
                      "switchOffDurationMs", "switchOnDurationMs"} |->
                 CASE k = "colorChangeDurationMs" -> m.color_change_duration
                   [] k = "powerOnBehavior" -> m.power_on_behavior
                   [] k = "powerOnBrightness" -> m.power_on_brightness
                   [] k = "switchOffDurationMs" -> m.switch_off_duration
                   [] k = "switchOnDurationMs" -> m.switch_on_duration]
        d1 == IF m.battery = None
              THEN d0 ELSE DictSet(d0, "battery", BatterySettingsDict(m.battery[1]))
        d2 == Unless(d1, "powerOnHue", m.power_on_hue)
        d3 == Unless(d2, "powerOnSaturation", m.power_on_saturation)
        d4 == Unless(d3, "powerOnTemperature", m.power_on_temperature)
    IN  d4

\* power_on_behavior: the overrides laid over the settings just read.
PowerOnOverrides(current_settings, a) ==
    LET m1 == IF a.behavior # None
              THEN [current_settings EXCEPT !.power_on_behavior = a.behavior[1]]
              ELSE current_settings
        m2 == IF a.brightness # None
              THEN [m1 EXCEPT !.power_on_brightness = a.brightness[1]] ELSE m1
        m3 == IF a.hue # None THEN [m2 EXCEPT !.power_on_hue = a.hue] ELSE m2
        m4 == IF a.temperature # None
              THEN [m3 EXCEPT !.power_on_temperature = a.temperature] ELSE m3
    IN  m4

\* The battery settings are sent back with the rest.
KeepBattery(current_settings) == current_settings
\* The battery settings are unset when there are any.
UnsetBattery(current_settings) ==
    IF current_settings.battery # None
    THEN [current_settings EXCEPT !.battery = None]
    ELSE current_settings

\* The body power_on_behavior() sends.
PowerOnData(data, a) == SettingsDict(UnsetBattery(PowerOnOverrides(ParseSettings(data), a)))

GuardedOps == {"battery", "battery_bypass", "energy_saving"}

\* The body of a guarded operation, up to its first request.
Wrapped(o, a) ==
    CASE o = "battery" -> SendEff("main", "GET", Rel(<<"battery-info">>), None)
      [] o = "battery_bypass" ->
            SendEff("main", "PUT", SettingsPutUri,
                    Some([battery |-> [bypass |-> IntOfBool(a.on[1])]]))
      [] o = "energy_saving" -> SendEff("battery_settings", "GET", SettingsUri, None)

\* A guard that lets every call pass.
HandlerUnguarded(o, a, has) == Wrapped(o, a)

\* requires_battery.handler, once has_battery() has answered.
Handler(o, a, has) == IF has = FALSE THEN FinishEff(ElgatoNoBatteryError) ELSE Wrapped(o, a)

\* has_battery() without the cache: the settings are fetched by every call.
HasBatteryEffUncached(o, a) == SendEff("has_battery", "GET", SettingsUri, None)

\* has_battery(), and the guard that calls it: the cached value when there is one.
HasBatteryEff(o, a) ==
    IF _has_battery = None
    THEN SendEff("has_battery", "GET", SettingsUri, None)
    ELSE IF o = "has_battery"
    THEN FinishEff(Returned("bool", _has_battery[1]))
    ELSE Handler(o, a, _has_battery[1])

\* battery_settings() returns settings.battery, the parsed battery object.
BatterySettingsReturned(m) ==
    [Returned("BatterySettings", TRUE) EXCEPT !.detail = DictSet(NoDetail, "battery", Some(m))]

\* What a caller does with the decoded JSON its request returned.
AfterJson(o, stg, a, data) ==
    CASE stg = "has_battery" ->
            IF o = "has_battery"
            THEN FinishEff(Returned("bool", data.battery # None))
            ELSE Handler(o, a, data.battery # None)
      [] stg = "settings" ->
            IF o = "power_on_behavior"
            THEN SendEff("main", "PUT", SettingsPutUri, Some(PowerOnData(data, a)))
            ELSE FinishEff(Returned("Settings", data.battery # None))
      [] stg = "battery_settings" ->
            IF data.battery = None
            THEN FinishEff(ElgatoNoBatteryError)
            ELSE IF o = "battery_settings"
            THEN FinishEff(BatterySettingsReturned(ParseBatterySettings(data.battery[1])))
            ELSE SendEff("main", "PUT", SettingsPutUri,
                         Some(EnergySavingBody(ParseBatterySettings(data.battery[1]), a)))
      [] stg = "main" ->
            IF o = "state"
            THEN IF data.lights = "missing"
                 THEN FinishEff(Raised("KeyError", "lights", NoDetail))
                 ELSE IF data.lights = "empty"
                 THEN FinishEff(Raised("IndexError", "list index out of range", NoDetail))
                 ELSE FinishEff(Returned("State", FALSE))
            ELSE IF o = "battery"
            THEN FinishEff(BatteryInfoReturned(ParseBatteryInfo(data.info[1])))
            ELSE IF o = "info" THEN FinishEff(Returned("Info", FALSE))
            ELSE FinishEff(Returned("None", FALSE))

\* The cache is set by every fetch of the settings.
CacheAfterSettings(stg, data) ==
    IF stg \in {"has_battery", "settings", "battery_settings"}
    THEN Some(data.battery # None)
    ELSE _has_battery

\* The cache follows what battery_settings() finds as well.
CacheAfterBatterySettings(stg, data) ==
    IF stg \in {"has_battery", "battery_settings"}
    THEN Some(data.battery # None)
    ELSE _has_battery

\* has_battery() stores what the settings it fetched say.
CacheAfterJson(stg, data) ==
    IF stg = "has_battery" THEN Some(data.battery # None) ELSE _has_battery

----------------------------------------------------------------------------
\* Steps

\* As Apply below, but the session is made whether a request is sent or not.
ApplyEager(t, o, a, log, eff, late) ==
    /\ UNCHANGED <<kwargs, closed, scope, device>>
    /\ op' = [op EXCEPT ![t] = o]
    /\ resp' = [resp EXCEPT ![t] = NoResponse]
    /\ session' = SessionAfterRequest
    /\ _close_session' = CloseSessionAfterRequest
    /\ IF Attempt(eff).kind = "send"
       THEN /\ reqs' = [reqs EXCEPT ![t] = Append(log, Sent(eff.req))]
            /\ inflight' = [inflight EXCEPT ![t] = Some(eff.req)]
            /\ pc' = [pc EXCEPT ![t] = "request"]
            /\ stage' = [stage EXCEPT ![t] = eff.stage]
            /\ args' = [args EXCEPT ![t] = a]
            /\ expired' = [expired EXCEPT ![t] = FALSE]
            /\ result' = [result EXCEPT ![t] = NoResult]
       ELSE /\ reqs' = [reqs EXCEPT ![t] = log]
            /\ inflight' = [inflight EXCEPT ![t] = None]
            /\ pc' = [pc EXCEPT ![t] = "done"]
            /\ stage' = [stage EXCEPT ![t] = "none"]
            /\ args' = [args EXCEPT ![t] = NoArgs]
            /\ expired' = [expired EXCEPT ![t] = late]
            /\ result' = [result EXCEPT ![t] = Attempt(eff).res]

\* A caller goes on as eff says: it sends the request of eff and awaits the
\* response, or its call ends.
Apply(t, o, a, log, eff, late) ==
    /\ UNCHANGED <<kwargs, closed, scope, device>>
    /\ op' = [op EXCEPT ![t] = o]
    /\ resp' = [resp EXCEPT ![t] = NoResponse]
    /\ IF Attempt(eff).kind = "send"
       THEN /\ session' = SessionAfterRequest
            /\ _close_session' = CloseSessionAfterRequest
            /\ reqs' = [reqs EXCEPT ![t] = Append(log, Sent(eff.req))]
            /\ inflight' = [inflight EXCEPT ![t] = Some(eff.req)]
            /\ pc' = [pc EXCEPT ![t] = "request"]
            /\ stage' = [stage EXCEPT ![t] = eff.stage]
            /\ args' = [args EXCEPT ![t] = a]
            /\ expired' = [expired EXCEPT ![t] = FALSE]
            /\ result' = [result EXCEPT ![t] = NoResult]
       ELSE /\ UNCHANGED <<session, _close_session>>
            /\ reqs' = [reqs EXCEPT ![t] = log]
            /\ inflight' = [inflight EXCEPT ![t] = None]
            /\ pc' = [pc EXCEPT ![t] = "done"]
            /\ stage' = [stage EXCEPT ![t] = "none"]
            /\ args' = [args EXCEPT ![t] = NoArgs]
            /\ expired' = [expired EXCEPT ![t] = late]
            /\ result' = [result EXCEPT ![t] = Attempt(eff).res]

\* A caller may start an operation when it runs none.
Free(t) == pc[t] \in {"idle", "done"}

\* A new call of operation o: it has issued no request yet.
Call(t, o, a, eff) ==
    /\ Apply(t, o, a, <<>>, eff, FALSE)
    /\ UNCHANGED _has_battery

has_battery(t) ==
    /\ Free(t)
    /\ Call(t, "has_battery", NoArgs, HasBatteryEff("has_battery", NoArgs))

battery(t) ==
    /\ Free(t)
    /\ Call(t, "battery", NoArgs, HasBatteryEff("battery", NoArgs))

battery_bypass(t, on) ==
    /\ Free(t)
    /\ Call(t, "battery_bypass", BypassArgs(on), HasBatteryEff("battery_bypass", BypassArgs(on)))

\* energy_saving() behind a lock: a call waits for the one in flight to end.
EnergySavingExclusive(t, a) ==
    /\ Free(t)
    /\ \A u \in Tasks : op[u] = "energy_saving" => Free(u)
    /\ Call(t, "energy_saving", a, HasBatteryEff("energy_saving", a))

energy_saving(t, a) ==
    /\ Free(t)
    /\ Call(t, "energy_saving", a, HasBatteryEff("energy_saving", a))

\* battery_settings() behind the guard: no fetch when the cache says that there
\* is no battery.
BatterySettingsGuarded(t) ==
    /\ Free(t)
    /\ Call(t, "battery_settings", NoArgs,
            IF _has_battery = Some(FALSE)
            THEN FinishEff(ElgatoNoBatteryError)
            ELSE SendEff("battery_settings", "GET", SettingsUri, None))

battery_settings(t) ==
    /\ Free(t)
    /\ Call(t, "battery_settings", NoArgs,
            SendEff("battery_settings", "GET", SettingsUri, None))

settings(t) ==
    /\ Free(t)
    /\ Call(t, "settings", NoArgs, SendEff("settings", "GET", SettingsUri, None))

info(t) ==
    /\ Free(t)
    /\ Call(t, "info", NoArgs, SendEff("main", "GET", Rel(<<"accessory-info">>), None))

state(t) ==
    /\ Free(t)
    /\ Call(t, "state", NoArgs, SendEff("main", "GET", Rel(<<"lights">>), None))

identify(t) ==
    /\ Free(t)
    /\ Call(t, "identify", NoArgs, SendEff("main", "POST", Rel(<<"identify">>), None))

restart(t) ==
    /\ Free(t)
    /\ Call(t, "restart", NoArgs, SendEff("main", "POST", Rel(<<"restart">>), None))

display_name(t, name) ==
    /\ Free(t)
    /\ Call(t, "display_name", NoArgs,
            SendEff("main", "PUT", Abs(<<"elgato", "accessory-info">>),
                    Some([displayName |-> name])))

light(t) ==
    /\ Free(t)
    /\ Call(t, "light", NoArgs, LightEff(kwargs))

power_on_behavior(t, a) ==
    /\ Free(t)
    /\ Call(t, "power_on_behavior", a, SendEff("settings", "GET", SettingsUri, None))

\* close(): the session is closed when there is one and the client made it.
\* Closing a session that is closed already does nothing.
ClosesAnySession == session # "None"
ClosesSession == session # "None" /\ _close_session
ClosedAfterClose == closed \/ ClosesSession

\* close() raises when the session is closed already.
CloseResultOnce ==
    IF closed /\ ClosesSession THEN SessionClosed ELSE Returned("None", FALSE)
CloseResult == Returned("None", FALSE)

\* __aexit__ closes when the block raised nothing.
ClosedAfterCleanExit(exc_info) == IF exc_info = None THEN ClosedAfterClose ELSE closed
\* __aexit__ calls close(), whatever the block raised.
ClosedAfterExit(exc_info) == ClosedAfterClose

\* The exception that leaves the `async with` block of caller t, if any.
ExcInfo(t) == IF result[t].kind = "raised" THEN Some(result[t].exc) ELSE None

\* A call of caller t that sends no request: it ends at once with res.
Local(t, o, res) ==
    /\ Free(t)
    /\ op' = [op EXCEPT ![t] = o]
    /\ pc' = [pc EXCEPT ![t] = "done"]
    /\ stage' = [stage EXCEPT ![t] = "none"]
    /\ args' = [args EXCEPT ![t] = NoArgs]
    /\ reqs' = [reqs EXCEPT ![t] = <<>>]
    /\ inflight' = [inflight EXCEPT ![t] = None]
    /\ resp' = [resp EXCEPT ![t] = NoResponse]
    /\ expired' = [expired EXCEPT ![t] = FALSE]
    /\ result' = [result EXCEPT ![t] = res]
    /\ UNCHANGED <<kwargs, session, device, _close_session, _has_battery>>

close(t) ==
    /\ Local(t, "close", CloseResult)
    /\ closed' = ClosedAfterClose
    /\ UNCHANGED scope

\* `async with` is entered: __aenter__ returns the client.
__aenter__(t) ==
    /\ ~scope[t]
    /\ Local(t, "__aenter__", Returned("Elgato", FALSE))
    /\ scope' = [scope EXCEPT ![t] = TRUE]
    /\ UNCHANGED closed

\* `async with` is left, by the end of the block or by an exception of it, which
\* __aexit__ does not swallow.
__aexit__(t) ==
    /\ scope[t]
    /\ Local(t, "__aexit__",
             IF ExcInfo(t) = None THEN CloseResult ELSE result[t])
    /\ closed' = ClosedAfterExit(ExcInfo(t))
    /\ scope' = [scope EXCEPT ![t] = FALSE]

\* A failure that takes the has-battery cache with it.
FailForgetting(t, res, late) ==
    /\ Apply(t, op[t], args[t], reqs[t], FinishEff(res), late)
    /\ _has_battery' = None

\* A failure after which the request that failed is sent once more.
FailRetrying(t, res, late) ==
    /\ Apply(t, op[t], args[t], reqs[t],
             IF Len(reqs[t]) < 3
             THEN [kind |-> "send", stage |-> stage[t],
                   req |-> [method |-> reqs[t][Len(reqs[t])].method,
                            url |-> reqs[t][Len(reqs[t])].url, data |-> None],
                   res |-> NoResult]
             ELSE FinishEff(res),
             late)
    /\ UNCHANGED _has_battery

\* A failure of the fetch of has_battery() that is taken for "no battery".
FailMemoizing(t, res, late) ==
    /\ Apply(t, op[t], args[t], reqs[t], FinishEff(res), late)
    /\ _has_battery' = IF stage[t] = "has_battery" THEN Some(FALSE) ELSE _has_battery

\* The call of a caller ends with an exception raised inside _request.
Fail(t, res, late) ==
    /\ Apply(t, op[t], args[t], reqs[t], FinishEff(res), late)
    /\ UNCHANGED _has_battery

\* async_timeout fires while session.request is awaited.
Timeout(t) ==
    /\ pc[t] = "request"
    /\ Fail(t, ExceptClauses("TimeoutError"), TRUE)

\* session.request raises: the connection fails, or the name does not resolve.
TransportError(t, exc) ==
    /\ pc[t] = "request"
    /\ Fail(t, ExceptClauses(exc), expired[t])

\* As Response below, but the content type is looked at before the status.
ResponseContentFirst(t, status, headers, body) ==
    /\ pc[t] = "request"
    /\ IF ~IsUnexpected(ContentType(headers)) /\ RaisesForStatus(status)
       THEN Fail(t, ExceptClauses("ClientResponseError"), expired[t])
       ELSE /\ pc' = [pc EXCEPT ![t] =
                        IF IsUnexpected(ContentType(headers)) THEN "text" ELSE "json"]
            /\ resp' = [resp EXCEPT ![t] =
                          [content_type |->
                              IF IsUnexpected(ContentType(headers))
                              THEN ContentType(headers) ELSE <<>>,
                           body |-> body]]
            /\ inflight' = [inflight EXCEPT ![t] = None]
            /\ UNCHANGED <<kwargs, session, closed, scope, _close_session, _has_battery, op,
                           stage, args, reqs, expired, result>>

\* session.request returns the response: its status line and headers are in.
\* What the device holds after the request is said by the step that answers.
Response(t, status, headers, body) ==
    /\ pc[t] = "request"
    /\ IF RaisesForStatus(status)
       THEN Fail(t, ExceptClauses("ClientResponseError"), expired[t])
       ELSE /\ pc' = [pc EXCEPT ![t] =
                        IF IsUnexpected(ContentType(headers)) THEN "text" ELSE "json"]
            /\ resp' = [resp EXCEPT ![t] =
                          [content_type |->
                              IF IsUnexpected(ContentType(headers))
                              THEN ContentType(headers) ELSE <<>>,
                           body |-> body]]
            /\ inflight' = [inflight EXCEPT ![t] = None]
            /\ UNCHANGED <<kwargs, session, closed, scope, _close_session, _has_battery, op,
                           stage, args, reqs, expired, result>>

\* request_timeout seconds have gone by since the request was sent, while the
\* body is read: the timeout block was left, nothing happens.
DeadlinePasses(t) ==
    /\ pc[t] \in {"text", "json"}
    /\ ~expired[t]
    /\ expired' = [expired EXCEPT ![t] = TRUE]
    /\ UNCHANGED <<kwargs, session, closed, scope, device, _close_session, _has_battery, op,
                   stage, pc, args, reqs, inflight, resp, result>>

\* response.text() returns: the response was not JSON.
TextRead(t) ==
    /\ pc[t] = "text"
    /\ Fail(t, UnexpectedResponse(resp[t].content_type, resp[t].body), expired[t])

\* response.json() returns: _request returns the decoded body to its caller.
JsonRead(t) ==
    /\ pc[t] = "json"
    /\ _has_battery' = CacheAfterJson(stage[t], resp[t].body)
    /\ Apply(t, op[t], args[t], reqs[t], AfterJson(op[t], stage[t], args[t], resp[t].body),
             expired[t])

DisplayNames == {"Frenck"}
TransportExceptions == {"ClientError", "gaierror"}

\* The device answers the request of caller t. What it reports of its battery
\* is any of batteries: its settings are changed by others as well.
Respond(t, statuses, headerSets, batteries) ==
    /\ pc[t] = "request"
    /\ UNCHANGED device
    /\ \E status \in statuses, headers \in headerSets :
          \E body \in Bodies(inflight[t][1], headers, batteries) :
             Response(t, status, headers, body)

\* The device answers the request of caller t from the settings it holds, and
\* stores what a request it answers with a success has written.
Stored(t, statuses, headerSets) ==
    /\ pc[t] = "request"
    /\ \E status \in statuses, headers \in headerSets :
          \E body \in Bodies(inflight[t][1], headers, {device.battery}) :
             /\ Response(t, status, headers, body)
             /\ device' = IF RaisesForStatus(status)
                          THEN device
                          ELSE DeviceAfter(device, inflight[t][1])

\* A step of _request for caller t, the device answering with one of the given
\* statuses and headers.
Transport(t, statuses, headerSets, batteries) ==
    \/ Timeout(t)
    \/ \E exc \in TransportExceptions : TransportError(t, exc)
    \/ Respond(t, statuses, headerSets, batteries)
    \/ DeadlinePasses(t)
    \/ TextRead(t)
    \/ JsonRead(t)

\* Caller t starts an operation.
Operation(t, savings) ==
    \/ has_battery(t)
    \/ battery(t)
    \/ \E on \in BOOLEAN : battery_bypass(t, on)
    \/ \E a \in savings : energy_saving(t, a)
    \/ battery_settings(t)
    \/ settings(t)
    \/ info(t)
    \/ state(t)
    \/ identify(t)
    \/ restart(t)
    \/ \E name \in DisplayNames : display_name(t, name)
    \/ light(t)

\* Several callers use the client at the same time.
Next ==
    \E t \in Tasks :
        \/ Operation(t, EnergySavingSamples)
        \/ Transport(t, StatusSamples, HeaderSamples, BatterySamples)

Spec == Init /\ [][Next]_vars

\* One caller uses the client, each call after the one before has ended, and the
\* device answers with every status and content type.
Caller == CHOOSE t \in Tasks : \A u \in Tasks : t <= u

\* Caller t closes the client, or enters or leaves `async with`.
Lifecycle(t) ==
    \/ close(t)
    \/ __aenter__(t)
    \/ __aexit__(t)

NextSerial ==
    \/ Operation(Caller, EnergySavingInputs)
    \/ \E a \in PowerOnSamples : power_on_behavior(Caller, a)
    \/ Lifecycle(Caller)
    \/ Transport(Caller, StatusCodes, HeaderSets, BatteryValues)

SpecSerial == InitSerial /\ [][NextSerial]_vars

\* One caller calls light() with every combination of arguments.
NextLight ==
    \/ light(Caller)
    \/ has_battery(Caller)
    \/ Transport(Caller, StatusSamples, HeaderSamples, BatterySamples)

SpecLight == InitLight /\ [][NextLight]_vars

\* A step of _request for caller t, against a device that stores what is written.
TransportStored(t) ==
    \/ Timeout(t)
    \/ \E exc \in TransportExceptions : TransportError(t, exc)
    \/ Stored(t, StatusSamples, HeaderSamples)
    \/ DeadlinePasses(t)
    \/ TextRead(t)
    \/ JsonRead(t)

InitStored == kwargs \in LightSample /\ device \in DeviceValues /\ Constructed

\* One caller changes the energy saving settings of a device that stores them.
NextSaving ==
    \/ \E a \in EnergySavingOverrides : energy_saving(Caller, a)
    \/ battery_settings(Caller)
    \/ \E on \in BOOLEAN : battery_bypass(Caller, on)
    \/ TransportStored(Caller)

SpecSaving == InitStored /\ [][NextSaving]_vars

\* One caller changes the power-on behavior of a device that stores it.
NextPowerOn ==
    \/ \E a \in PowerOnInputs : power_on_behavior(Caller, a)
    \/ settings(Caller)
    \/ TransportStored(Caller)

SpecPowerOn == InitStored /\ [][NextPowerOn]_vars

\* Two energy_saving() calls that override different fields.
RaceInputs == {[NoArgs EXCEPT !.on = Some(TRUE)], [NoArgs EXCEPT !.brightness = Some(30)]}

\* A device with a battery, energy saving off.
KeyLightMini == Device(Some([energySaving |-> EnergySaving(0, 15, 0, 0, 10), bypass |-> 0]),
                       KeyLightSettings)

InitRace == kwargs \in LightSample /\ device = KeyLightMini /\ Constructed

\* Several callers change the energy saving settings of a device that stores
\* them, at the same time.
NextRace ==
    \E t \in Tasks :
        \/ \E a \in RaceInputs : energy_saving(t, a)
        \/ TransportStored(t)

SpecRace == InitRace /\ [][NextRace]_vars

\* Several callers use and close the client at the same time.
NextSession ==
    \E t \in Tasks :
        \/ info(t)
        \/ state(t)
        \/ close(t)
        \/ Transport(t, StatusSamples, HeaderSamples, BatterySamples)

SpecSession == Init /\ [][NextSession]_vars

\* The device answers the GET battery-info of caller t with one of infos.
Measured(t, infos) ==
    /\ pc[t] = "request"
    /\ Sent(inflight[t][1]) = [method |-> "GET", url |-> <<"elgato", "battery-info">>]
    /\ UNCHANGED device
    /\ \E i \in infos : Response(t, 200, DictSet(EmptyDict, "Content-Type", CT_JSON),
                                  BatteryInfoBody(i))

\* One caller reads the battery information, the device charging at every
\* voltage and current.
NextBattery ==
    \/ battery(Caller)
    \/ Measured(Caller, ChargeValues)
    \/ Transport(Caller, StatusSamples, HeaderSamples, BatterySamples)

SpecBattery == Init /\ [][NextBattery]_vars

----------------------------------------------------------------------------
\* Properties

SettingsGet == [method |-> "GET", url |-> <<"elgato", "lights", "settings">>]
SettingsPut == [method |-> "PUT", url |-> <<"elgato", "lights", "settings">>]
BatteryInfoGet == [method |-> "GET", url |-> <<"elgato", "battery-info">>]
LightsPut == [method |-> "PUT", url |-> <<"elgato", "lights">>]

\* Request r is among the requests of log.
InLog(log, r) == \E i \in 1..Len(log) : log[i] = r

\* Caller t begins a call in this step.
Begins(t) ==
    /\ Free(t)
    /\ \/ op'[t] # op[t]
       \/ pc'[t] # pc[t]
       \/ reqs'[t] # reqs[t]
       \/ result'[t] # result[t]

\* The request a guarded operation is there to make.
OwnRequest(o) == IF o = "battery" THEN BatteryInfoGet ELSE SettingsPut

\* In this step has_battery() answers false to the guard of the call of t: from
\* the cache as the call begins, or from the settings the guard has fetched.
C1_GuardYieldsFalse(t) ==
    \/ /\ Begins(t)
       /\ op'[t] \in GuardedOps
       /\ _has_battery = Some(FALSE)
    \/ /\ pc[t] = "json"
       /\ pc'[t] # "json"
       /\ stage[t] = "has_battery"
       /\ op[t] \in GuardedOps
       /\ resp[t].body.battery = None

C1_NoBatteryRaised(t) ==
    /\ pc'[t] = "done"
    /\ result'[t].kind = "raised"
    /\ result'[t].exc = "ElgatoNoBatteryError"
    /\ result'[t].msg = "The Elgato light does not have a battery."
    /\ inflight'[t] = None
    /\ ~InLog(reqs'[t], OwnRequest(op'[t]))

\* C1: when has_battery() yields false to the guard of battery, battery_bypass
\* or energy_saving, the call raises ElgatoNoBatteryError with the default
\* message and the request of the wrapped operation (GET battery-info, PUT
\* lights/settings) is not issued.
C1_GuardRaisesNoBattery ==
    [][\A t \in Tasks : C1_GuardYieldsFalse(t) => C1_NoBatteryRaised(t)]_vars

\* A guarded call that fetched the settings, found no battery and ended with
\* ElgatoNoBatteryError after that one request.
C1_Witness ==
    \E t \in Tasks :
        /\ op[t] = "battery_bypass"
        /\ pc[t] = "done"
        /\ result[t] = ElgatoNoBatteryError
        /\ reqs[t] = <<SettingsGet>>
        /\ _has_battery = Some(FALSE)

\* A has_battery() call of t has completed with a value.
C2_Completed(t) == pc[t] = "done" /\ op[t] = "has_battery" /\ result[t].kind = "returned"

\* With the cache unset, has_battery() issues one GET lights/settings and
\* returns whether the reply has a battery object.
C2_Fetches(t) ==
    /\ (Begins(t) /\ op'[t] = "has_battery" /\ _has_battery = None)
          => (pc'[t] = "request" /\ reqs'[t] = <<SettingsGet>>)
    /\ (op[t] = "has_battery" /\ pc[t] = "json" /\ pc'[t] # "json")
          => /\ result'[t] = Returned("bool", resp[t].body.battery # None)
             /\ reqs'[t] = <<SettingsGet>>

\* A call that begins after a has_battery() call completed with value v: a
\* has_battery() call returns v without a request, a guard lets the call pass
\* or not as v says, without a settings request for the check.
C2_Later(u, v) ==
    /\ (Begins(u) /\ op'[u] = "has_battery")
          => (pc'[u] = "done" /\ result'[u] = Returned("bool", v) /\ reqs'[u] = <<>>)
    /\ (Begins(u) /\ op'[u] \in GuardedOps)
          => IF v
             THEN pc'[u] = "request" /\ Len(reqs'[u]) = 1 /\
                  (op'[u] # "energy_saving" => reqs'[u] = <<OwnRequest(op'[u])>>)
             ELSE pc'[u] = "done" /\ result'[u] = ElgatoNoBatteryError /\ reqs'[u] = <<>>

\* C2: has_battery() is memoized per client: with the cache unset it issues
\* exactly one GET lights/settings and returns whether the reply has a battery
\* object; once a has_battery() call has completed, every later has_battery()
\* call and guard check gets that same value, with no settings request for the
\* check.
C2_HasBatteryMemoized ==
    [][\A t \in Tasks :
          /\ C2_Fetches(t)
          /\ C2_Completed(t) => \A u \in Tasks : C2_Later(u, result[t].flag)]_vars

\* The messages of the errors light() raises for its arguments.
ValidationMessages ==
    {"Cannot set temperature together with hue or saturation",
     "Brightness not between 0 and 100",
     "Hue not between 0 and 360",
     "Saturation not between 0 and 100",
     "Color temperature out of range",
     "No parameters to set, light not adjusted"}

\* The light() call of t raised a validation error and sent nothing.
LightRejected(t) ==
    /\ pc[t] = "done"
    /\ result[t].kind = "raised"
    /\ result[t].exc = "ElgatoError"
    /\ result[t].msg \in ValidationMessages
    /\ reqs[t] = <<>>
    /\ inflight[t] = None

\* The light() call of t has sent its PUT, and no other request.
LightAccepted(t) == reqs[t] = <<LightsPut>>

NumericKeys == {"brightness", "hue", "saturation", "temperature"}
LightKeys == {"on"} \cup NumericKeys

\* The parameters that are not None.
Supplied(a) == {k \in LightKeys : a[k] # None}

\* C3: light() with temperature and with hue or saturation supplied raises the
\* validation error whatever the values are, 0 included, and sends nothing.
C3_ExclusiveRejected ==
    \A t \in Tasks :
        (/\ op[t] = "light"
         /\ "temperature" \in Supplied(kwargs)
         /\ Supplied(kwargs) \cap {"hue", "saturation"} # {})
            => LightRejected(t)

\* The ranges of the numeric parameters, both bounds included.
C4_InRange(k, v) ==
    CASE k = "brightness" -> v \in 0..100
      [] k = "hue" -> v \in 0..360
      [] k = "saturation" -> v \in 0..100
      [] k = "temperature" -> v \in 143..344

C5_EmptyWriteRejected ==
    \A t \in Tasks :
        op[t] = "light" =>
            /\ Supplied(kwargs) = {}
                  => /\ LightRejected(t)
                     /\ result[t].msg = "No parameters to set, light not adjusted"
            /\ (Supplied(kwargs) = {"on"} /\ kwargs.on = Some(FALSE)) => LightAccepted(t)
            /\ \A k \in {"brightness", "hue", "saturation"} :
                  (Supplied(kwargs) = {k} /\ kwargs[k] = Some(0)) => LightAccepted(t)

\* light(on=False) has sent its PUT.
C5_Witness ==
    \E t \in Tasks :
        /\ op[t] = "light"
        /\ Supplied(kwargs) = {"on"}
        /\ kwargs.on = Some(FALSE)
        /\ pc[t] = "request"
        /\ LightAccepted(t)

\* In this step the light() call of t begins and raises a validation error.
C6_RaisesValidation(t) ==
    /\ Begins(t)
    /\ op'[t] = "light"
    /\ pc'[t] = "done"
    /\ result'[t].kind = "raised"
    /\ result'[t].msg \in ValidationMessages

\* C6: a light() call that raises a validation error has sent no request and
\* leaves the client as it was: no session is made, the ownership flag and the
\* has-battery cache keep their values.
C6_ValidationBeforeRequest ==
    [][\A t \in Tasks :
          C6_RaisesValidation(t)
              => /\ reqs'[t] = <<>>
                 /\ inflight'[t] = None
                 /\ session' = session
                 /\ _close_session' = _close_session
                 /\ _has_battery' = _has_battery]_vars

\* light() raised a validation error on a client that has no session.
C6_Witness ==
    \E t \in Tasks :
        /\ op[t] = "light"
        /\ LightRejected(t)
        /\ session = "None"
        /\ _close_session = FALSE

\* The value sent for parameter k: on as 1 or 0, the others as they are.
C7_Value(a, k) == IF k = "on" THEN (IF a.on = Some(TRUE) THEN 1 ELSE 0) ELSE a[k][1]

C7_Body(a) ==
    [numberOfLights |-> 1, lights |-> <<[k \in Supplied(a) |-> C7_Value(a, k)]>>]

\* C7: a light() call that is accepted issues one PUT to lights, and no other
\* request, with body {numberOfLights: 1, lights: [s]} where s has the keys of
\* the supplied parameters and no others, each with the value supplied, on as
\* 1 or 0.
C7_OnePutWithSuppliedKeys ==
    \A t \in Tasks :
        (op[t] = "light" /\ ~LightRejected(t))
            => /\ reqs[t] = <<LightsPut>>
               /\ pc[t] = "request"
                     => inflight[t] =
                            Some([method |-> "PUT", url |-> <<"elgato", "lights">>,
                                  data |-> Some(C7_Body(kwargs))])

\* light(on=False, brightness=100, hue=0, saturation=100) awaits its PUT.
C7_Witness ==
    \E t \in Tasks :
        /\ op[t] = "light"
        /\ pc[t] = "request"
        /\ kwargs = [on |-> Some(FALSE), brightness |-> Some(100), hue |-> Some(0),
                     saturation |-> Some(100), temperature |-> None]
        /\ inflight[t][1].data[1].lights[1] =
              [k \in {"on", "brightness", "hue", "saturation"} |->
                  CASE k = "on" -> 0 [] k = "brightness" -> 100
                    [] k = "hue" -> 0 [] k = "saturation" -> 100]

\* The call of t ends in this step with a connection error, and returns nothing.
C8_RaisesConnectionError(t) ==
    /\ pc'[t] = "done"
    /\ result'[t].kind = "raised"
    /\ result'[t].exc = "ElgatoConnectionError"
    /\ result'[t].value = ""

\* The statuses that are a success.
C8_Success(status) == status \in 200..299

\* In this step the request of t comes back with a status that is no success.
C8_ErrorStatus(t) ==
    /\ pc[t] = "request"
    /\ \E status \in StatusCodes : \E headers \in HeaderSets :
          /\ ~C8_Success(status)
          /\ \E body \in Bodies(inflight[t][1], headers, BatteryValues) :
                Response(t, status, headers, body)

C9_IsJson(headers) ==
    /\ "Content-Type" \in DOMAIN headers
    /\ \E i \in 1..Len(headers["Content-Type"]) :
          headers["Content-Type"][i] = "application/json"

\* The Content-Type header, the empty string when it is missing.
C9_ContentType(headers) ==
    IF "Content-Type" \in DOMAIN headers THEN headers["Content-Type"] ELSE <<>>

\* In this step the request of t comes back with these headers and a success.
C9_Answered(t, headers) ==
    /\ pc[t] = "request"
    /\ \E status \in StatusCodes :
          /\ C8_Success(status)
          /\ \E body \in Bodies(inflight[t][1], headers, BatteryValues) :
                Response(t, status, headers, body)

\* C9: a success whose Content-Type is missing or has no application/json in it
\* raises the unexpected response error: an ElgatoError which a handler for the
\* connection error does not catch, and which carries the content type and the
\* raw body. The body is decoded as JSON only when the content type has
\* application/json in it.
C9_UnexpectedResponse ==
    [][\A t \in Tasks :
          /\ \A headers \in HeaderSets :
                C9_Answered(t, headers)
                    => IF C9_IsJson(headers)
                       THEN pc'[t] = "json"
                       ELSE /\ pc'[t] = "text"
                            /\ resp'[t].content_type = C9_ContentType(headers)
          /\ pc[t] = "text" /\ pc'[t] # "text"
                => /\ pc'[t] = "done"
                   /\ result'[t].kind = "raised"
                   /\ result'[t].exc = "ElgatoError"
                   /\ ~IsSubclass(result'[t].exc, "ElgatoConnectionError")
                   /\ result'[t].detail =
                         [k \in {"Content-Type", "response"} |->
                             IF k = "Content-Type"
                             THEN Some(resp[t].content_type)
                             ELSE Some(resp[t].body)]
          /\ pc'[t] = "done" /\ result'[t].kind = "returned" /\ ~Free(t)
                => pc[t] = "json"]_vars

\* A call ended with the unexpected response error for text/plain.
C9_Witness ==
    \E t \in Tasks :
        /\ pc[t] = "done"
        /\ result[t].kind = "raised"
        /\ result[t].exc = "ElgatoError"
        /\ result[t].msg = UnexpectedMessage
        /\ result[t].detail["Content-Type"] = Some(CT_TEXT)
        /\ result[t].detail["response"] = Some(TextBody)

\* C10: the timeout covers the whole of a request, the reading of the body
\* after the headers have come included: a call whose request has taken longer
\* than request_timeout ends with the connection error.
C10_TimeoutCoversBody ==
    \A t \in Tasks :
        (pc[t] = "done" /\ expired[t])
            => /\ result[t].kind = "raised"
               /\ result[t].exc = "ElgatoConnectionError"

\* The operations on the device.
PublicOps ==
    {"has_battery", "battery", "battery_bypass", "battery_settings", "energy_saving",
     "settings", "info", "state", "identify", "restart", "display_name", "light",
     "power_on_behavior"}

\* The call of t has returned.
HasReturned(t) == pc[t] = "done" /\ result[t].kind = "returned"

\* C11: a call of a public operation issues exactly one request, whether the
\* has-battery cache is set or not; energy_saving and power_on_behavior issue
\* exactly two, a read of lights/settings and then a write.
C11_OneRequestPerCall ==
    \A t \in Tasks :
        (HasReturned(t) /\ op[t] \in PublicOps)
            => Len(reqs[t]) = IF op[t] \in {"energy_saving", "power_on_behavior"} THEN 2 ELSE 1

\* The requests an operation makes itself, the check of the guard left out.
C11_Own(o) ==
    CASE o = "has_battery" -> <<>>
      [] o = "battery" -> <<BatteryInfoGet>>
      [] o = "battery_bypass" -> <<SettingsPut>>
      [] o = "energy_saving" -> <<SettingsGet, SettingsPut>>
      [] o = "battery_settings" -> <<SettingsGet>>
      [] o = "settings" -> <<SettingsGet>>
      [] o = "power_on_behavior" -> <<SettingsGet, SettingsPut>>
      [] o = "info" -> <<[method |-> "GET", url |-> <<"elgato", "accessory-info">>]>>
      [] o = "state" -> <<[method |-> "GET", url |-> <<"elgato", "lights">>]>>
      [] o = "identify" -> <<[method |-> "POST", url |-> <<"elgato", "identify">>]>>
      [] o = "restart" -> <<[method |-> "POST", url |-> <<"elgato", "restart">>]>>
      [] o = "display_name" -> <<[method |-> "PUT", url |-> <<"elgato", "accessory-info">>]>>
      [] o = "light" -> <<LightsPut>>

\* The sequence p is the beginning of q.
C11_Prefix(p, q) == Len(p) <= Len(q) /\ \A i \in 1..Len(p) : p[i] = q[i]

\* The operations that ask has_battery() first.
C11_Checked == {"has_battery", "battery", "battery_bypass", "energy_saving"}

\* C11, amended: a call that returns has issued the requests of its operation
\* and no others: one for info, settings, state, identify, restart,
\* display_name, light and battery_settings, a GET and then a PUT of
\* lights/settings for power_on_behavior and energy_saving, none for
\* has_battery. Before them has_battery, battery, battery_bypass and
\* energy_saving issue one GET lights/settings more when the cache is unset as
\* the call begins, and none when it is set.
C11_RequestsPerCall ==
    [][\A t \in Tasks :
          /\ (Begins(t) /\ op'[t] \in C11_Checked /\ ~closed)
                => IF _has_battery = None
                   THEN reqs'[t] = <<SettingsGet>>
                   ELSE C11_Prefix(reqs'[t], C11_Own(op'[t]))
          /\ (HasReturned(t)' /\ ~HasReturned(t) /\ op'[t] \in PublicOps)
                => \/ reqs'[t] = C11_Own(op'[t])
                   \/ /\ op'[t] \in C11_Checked
                      /\ reqs'[t] = <<SettingsGet>> \o C11_Own(op'[t])]_vars

\* energy_saving() has returned after three requests: the guard has fetched the
\* settings, and so has the operation before it wrote them.
C11_Witness ==
    \E t \in Tasks :
        /\ op[t] = "energy_saving"
        /\ HasReturned(t)
        /\ reqs[t] = <<SettingsGet, SettingsGet, SettingsPut>>

C13_CacheWrittenOnce ==
    [][_has_battery # None => _has_battery' = _has_battery]_vars

\* C14: a session the caller has supplied is never closed and never replaced by
\* the client: whatever requests, failures, close() calls and scope exits take
\* place, it stays the session of the client, it stays open, and the ownership
\* flag stays false.
C14_ExternalSessionKept ==
    [][session = "external"
          => /\ session' = "external"
             /\ closed' = FALSE
             /\ _close_session' = FALSE]_vars

\* close() has returned on a client that uses the session of its caller, and
\* the session is open.
C14_Witness ==
    \E t \in Tasks :
        /\ op[t] = "close"
        /\ HasReturned(t)
        /\ session = "external"
        /\ closed = FALSE
        /\ _close_session = FALSE

\* In this step caller t leaves `async with`.
C15_Leaves(t) == scope[t] /\ ~scope'[t]

\* C15: when `async with` is left and the client has made its own session, that
\* session is closed, whether the block ended or raised (a connection error, a
\* validation error, ElgatoNoBatteryError or any other); what the block raised
\* is raised on.
C15_ScopeClosesOwnSession ==
    [][\A t \in Tasks :
          C15_Leaves(t)
              => /\ session = "internal" => closed'
                 /\ result[t].kind = "raised" => result'[t] = result[t]]_vars

\* `async with` was left by a connection error and the session the client made
\* is closed.
C15_Witness ==
    \E t \in Tasks :
        /\ op[t] = "__aexit__"
        /\ pc[t] = "done"
        /\ ~scope[t]
        /\ result[t].kind = "raised"
        /\ result[t].exc = "ElgatoConnectionError"
        /\ session = "internal"
        /\ closed

\* The client: its session and whether it is closed, the flag and the cache.
C16_Client == <<session, closed, _close_session, _has_battery>>

\* C16: close() raises nothing, whether there is no session, a session of the
\* client's that is open or closed, or a session of the caller's; and a close()
\* that follows a close() leaves the client and the session as they were.
C16_CloseIdempotent ==
    [][\A t \in Tasks :
          (Begins(t) /\ op'[t] = "close")
              => /\ HasReturned(t)'
                 /\ (op[t] = "close" /\ pc[t] = "done") => C16_Client' = C16_Client
                 /\ closed' = (closed \/ session = "internal")
                 /\ <<session, _close_session, _has_battery>>'
                       = <<session, _close_session, _has_battery>>]_vars

\* close() has returned and the session the client made is closed.
C16_Witness ==
    \E t \in Tasks :
        /\ op[t] = "close"
        /\ HasReturned(t)
        /\ session = "internal"
        /\ _close_session
        /\ closed

\* In this step the energy_saving() call of t has read the battery settings and
\* sends its PUT.
C17_Writes(t) ==
    /\ op[t] = "energy_saving"
    /\ stage[t] = "battery_settings"
    /\ pc[t] = "json"
    /\ pc'[t] = "request"

\* Field by field: the override when one is given, else what was read.
C17_Given(override, read) == IF override = None THEN read ELSE override[1]
C17_Flag(override, read) ==
    IF override = None THEN read ELSE IF override = Some(TRUE) THEN 1 ELSE 0

C17_Merged(read, a) ==
    [enable |-> C17_Flag(a.on, read.enable),
     minimumBatteryLevel |-> C17_Given(a.minimum_battery_level, read.minimumBatteryLevel),
     disableWifi |-> C17_Flag(a.disable_wifi, read.disableWifi),
     adjustBrightness |->
        [enable |-> C17_Flag(a.adjust_brightness, read.adjustBrightness.enable),
         brightness |-> C17_Given(a.brightness, read.adjustBrightness.brightness)]]

\* C17: for every set of overrides, the PUT of energy_saving() has the body
\* {battery: {energySaving: E}}: a field of E that is overridden (enable,
\* minimumBatteryLevel, disableWifi, adjustBrightness.enable,
\* adjustBrightness.brightness) has the value given, a flag as 1 or 0, every
\* other field of E has the value the same call has just read, and there is no
\* bypass in the body.
C17_EnergySavingMerge ==
    [][\A t \in Tasks :
          C17_Writes(t)
              => /\ reqs'[t][Len(reqs'[t])] = SettingsPut
                 /\ inflight'[t][1].data =
                       Some([battery |->
                               [energySaving |->
                                   C17_Merged(resp[t].body.battery[1].energySaving, args[t])]])
                 /\ DOMAIN inflight'[t][1].data[1].battery = {"energySaving"}]_vars

\* energy_saving(on=True, brightness=30) awaits its PUT: enable and the
\* brightness are the ones given, the three other fields the ones read.
C17_Witness ==
    \E t \in Tasks :
        /\ op[t] = "energy_saving"
        /\ stage[t] = "main"
        /\ pc[t] = "request"
        /\ args[t] = [NoArgs EXCEPT !.on = Some(TRUE), !.brightness = Some(30)]
        /\ inflight[t][1].data[1].battery.energySaving = EnergySaving(1, 15, 0, 0, 30)

\* C18: energy_saving() with no overrides writes back the energy saving values
\* it has read: the settings of a device that stores what is written are the
\* same after the call as before, however often the call is made.
C18_NoOverridesRoundTrip ==
    [][\A t \in Tasks :
          /\ (C17_Writes(t) /\ args[t] = NoArgs)
                => inflight'[t][1].data[1].battery.energySaving
                      = resp[t].body.battery[1].energySaving
          /\ (op[t] = "energy_saving" /\ args[t] = NoArgs /\ ~Free(t))
                => device' = device]_vars

\* energy_saving() with no overrides awaits the answer to its PUT, which
\* carries the energy saving settings the device holds.
C18_Witness ==
    \E t \in Tasks :
        /\ op[t] = "energy_saving"
        /\ args[t] = NoArgs
        /\ stage[t] = "main"
        /\ pc[t] = "request"
        /\ device.battery # None
        /\ device.battery[1].energySaving = EnergySaving(1, 20, 1, 1, 30)
        /\ inflight[t][1].data[1].battery.energySaving = device.battery[1].energySaving

\* In this step the power_on_behavior() call of t has read the settings and
\* sends its PUT.
C19_Writes(t) ==
    /\ op[t] = "power_on_behavior"
    /\ stage[t] = "settings"
    /\ pc[t] = "json"
    /\ pc'[t] = "request"

\* The key of the wire each override is written under.
C19_Keys ==
    [behavior |-> "powerOnBehavior", brightness |-> "powerOnBrightness",
     hue |-> "powerOnHue", temperature |-> "powerOnTemperature"]

\* The keys of the overrides that are given.
C19_Overridden(a) == {C19_Keys[p] : p \in {q \in DOMAIN C19_Keys : a[q] # None}}

\* C19: power_on_behavior() reads the settings and then issues one PUT to
\* lights/settings. The body has no battery object, also when the settings read
\* have one; every override given (behavior, brightness, hue, temperature) is in
\* it with the value given, every other key of the settings read, battery
\* apart, is in it with the value read, and a key that is in neither is not.
C19_PowerOnStripsBattery ==
    [][\A t \in Tasks :
          C19_Writes(t)
              => LET read == resp[t].body.settings
                     body == inflight'[t][1].data[1]
                 IN  /\ reqs'[t] = <<SettingsGet, SettingsPut>>
                     /\ inflight'[t][1].method = "PUT"
                     /\ "battery" \notin DOMAIN body
                     /\ DOMAIN body = (DOMAIN read) \cup C19_Overridden(args[t])
                     /\ \A p \in DOMAIN C19_Keys :
                           args[t][p] # None => body[C19_Keys[p]] = args[t][p][1]
                     /\ \A k \in (DOMAIN read) \ C19_Overridden(args[t]) :
                           body[k] = read[k]]_vars

\* power_on_behavior(hue=0) awaits its PUT: the device has a battery and no
\* power-on hue, the body has the hue, no saturation and no battery.
C19_Witness ==
    \E t \in Tasks :
        /\ op[t] = "power_on_behavior"
        /\ stage[t] = "main"
        /\ pc[t] = "request"
        /\ args[t] = [NoArgs EXCEPT !.hue = Some(0)]
        /\ device.battery # None
        /\ "powerOnHue" \notin DOMAIN device.settings
        /\ inflight[t][1].data[1]["powerOnHue"] = 0
        /\ "powerOnSaturation" \notin DOMAIN inflight[t][1].data[1]
        /\ "battery" \notin DOMAIN inflight[t][1].data[1]

\* In this step the request of t fails with the connection error.
C20_Fails(t) ==
    /\ pc[t] = "request"
    /\ pc'[t] = "done"
    /\ result'[t].kind = "raised"
    /\ result'[t].exc = "ElgatoConnectionError"

\* The call of t has ended with the connection error, and t has called
\* nothing since.
C20_HasFailed(t) ==
    /\ op[t] \in PublicOps
    /\ pc[t] = "done"
    /\ result[t].kind = "raised"
    /\ result[t].exc = "ElgatoConnectionError"

\* The operations that send their request whatever the cache says, and return
\* whatever JSON object the answer holds.
C20_Plain == {"info", "settings", "identify", "restart", "display_name"}

\* C20: a request that fails with a timeout or another connection error leaves
\* the client fit for use: the session, the ownership flag and the has-battery
\* cache are what they were when the request was sent, the session is not
\* closed, and an operation called next sends its request and, when that is
\* answered with a success and JSON, returns.
C20_FailureLeavesClientReusable ==
    [][\A t \in Tasks :
          /\ C20_Fails(t)
                => /\ <<session, _close_session, _has_battery>>'
                         = <<session, _close_session, _has_battery>>
                   /\ closed' = FALSE
          /\ (C20_HasFailed(t) /\ Begins(t) /\ op'[t] \in C20_Plain)
                => (pc'[t] = "request" /\ Len(reqs'[t]) = 1)
          /\ (op[t] \in C20_Plain /\ pc[t] = "json" /\ pc'[t] # "json")
                => HasReturned(t)']_vars

\* A request has timed out on a client that has made its session and knows of
\* the battery: the session is open and the cache is set.
C20_Witness ==
    \E t \in Tasks :
        /\ C20_HasFailed(t)
        /\ result[t].msg = TimeoutMessage
        /\ session = "internal"
        /\ _close_session
        /\ closed = FALSE
        /\ _has_battery = Some(TRUE)

\* In this step a request of t fails: it times out, the transport raises, the
\* answer has an error status, or the answer is not JSON.
C21_RequestFails(t) ==
    \/ Timeout(t)
    \/ \E exc \in TransportExceptions : TransportError(t, exc)
    \/ C8_ErrorStatus(t)
    \/ TextRead(t)

\* The operations that read the settings and then write them.
C21_ReadModifyWrite == {"energy_saving", "power_on_behavior"}

\* C21: no operation retries. A step in which a request of a call fails ends
\* the call with the error and issues no request; a request is issued in the
\* middle of a call only by the step that has decoded the answer to the one
\* before; so the PUT of energy_saving and of power_on_behavior follows a read
\* that succeeded, and the request of a guarded operation a guard fetch that
\* succeeded.
C21_NoRetry ==
    [][\A t \in Tasks :
          /\ C21_RequestFails(t)
                => /\ pc'[t] = "done"
                   /\ result'[t].kind = "raised"
                   /\ reqs'[t] = reqs[t]
                   /\ inflight'[t] = None
          /\ (~Free(t) /\ reqs'[t] # reqs[t])
                => /\ pc[t] = "json"
                   /\ Len(reqs'[t]) = Len(reqs[t]) + 1
          /\ (/\ op'[t] \in C21_ReadModifyWrite
              /\ InLog(reqs'[t], SettingsPut)
              /\ ~(~Begins(t) /\ InLog(reqs[t], SettingsPut)))
                => /\ pc[t] = "json"
                   /\ stage[t] \in {"battery_settings", "settings"}
                   /\ reqs[t][Len(reqs[t])] = SettingsGet
          /\ (/\ op'[t] \in {"battery", "battery_bypass"}
              /\ reqs'[t] = <<SettingsGet, OwnRequest(op'[t])>>
              /\ reqs'[t] # reqs[t])
                => (pc[t] = "json" /\ stage[t] = "has_battery")]_vars

\* energy_saving() has ended with the connection error after the guard fetch
\* and its own read of the settings: the read failed and no PUT was issued.
C21_Witness ==
    \E t \in Tasks :
        /\ op[t] = "energy_saving"
        /\ pc[t] = "done"
        /\ result[t].kind = "raised"
        /\ result[t].exc = "ElgatoConnectionError"
        /\ reqs[t] = <<SettingsGet, SettingsGet>>

\* The four kinds of error of the client: the connection error, the unexpected
\* response error and the validation error (both ElgatoError) and the no
\* battery error.
C22_ErrorKinds == {"ElgatoConnectionError", "ElgatoError", "ElgatoNoBatteryError"}

\* C22: every failure of every public operation reaches the caller as one of
\* the four error kinds, for every answer of the device, a JSON answer that
\* lacks what is expected included (a lights reply with an empty or a missing
\* lights array). Checked of calls made on a session that is open.
C22_FailuresOfFourKinds ==
    \A t \in Tasks :
        (op[t] \in PublicOps /\ pc[t] = "done" /\ result[t].kind = "raised" /\ ~closed)
            => result[t].exc \in C22_ErrorKinds

\* C23: battery_settings() fetches the settings on every call, whatever the
\* has-battery cache holds; it raises ElgatoNoBatteryError exactly when the
\* settings it fetched have no battery object and returns that battery object
\* otherwise; and it leaves the has-battery cache as it is.
C23_BatterySettings ==
    [][\A t \in Tasks :
          /\ (Begins(t) /\ op'[t] = "battery_settings" /\ ~closed)
                => /\ pc'[t] = "request"
                   /\ reqs'[t] = <<SettingsGet>>
                   /\ inflight'[t][1].method = "GET"
          /\ (op[t] = "battery_settings" /\ pc[t] = "json" /\ pc'[t] # "json")
                => /\ pc'[t] = "done"
                   /\ reqs'[t] = <<SettingsGet>>
                   /\ IF resp[t].body.battery = None
                      THEN result'[t] = ElgatoNoBatteryError
                      ELSE /\ HasReturned(t)'
                           /\ DOMAIN result'[t].detail = {"battery"}
                           /\ BatterySettingsDict(result'[t].detail["battery"][1])
                                 = resp[t].body.battery[1]
          /\ (/\ op[t] = "battery_settings"
              /\ ~Free(t)
              /\ pc'[t] = "done"
              /\ result'[t].exc = "ElgatoNoBatteryError")
                => (pc[t] = "json" /\ resp[t].body.battery = None)
          /\ (op[t] = "battery_settings" /\ ~Free(t))
                => _has_battery' = _has_battery]_vars

\* battery_settings() has fetched the settings and returned the battery object
\* while the cache says that there is no battery.
C23_Witness ==
    \E t \in Tasks :
        /\ op[t] = "battery_settings"
        /\ HasReturned(t)
        /\ reqs[t] = <<SettingsGet>>
        /\ result[t].detail["battery"][1].energy_saving.minimum_battery_level = 20
        /\ _has_battery = Some(FALSE)

\* The integer x is as near to num / den as an integer can be.
C24_Rounded(x, num, den) ==
    LET off == den * x - num IN 2 * (IF off < 0 THEN -off ELSE off) <= den

\* C24: for every BatteryInfo with input_charge_voltage v (mV) and
\* input_charge_current c (mA), input_charge_power is v * c / 1000 rounded to
\* an integer, and charge_voltage, charge_current and charge_power are
\* v / 1000, c / 1000 and input_charge_power / 1000 rounded to 2 decimals
\* (counted here in hundredths), charge_power from the input_charge_power
\* that is rounded already; for v = 4208 and c = 3008 they are 12658, 4.21,
\* 3.01 and 12.66.
C24_BatteryInfoNumerics ==
    \A t \in Tasks :
        (op[t] = "battery" /\ HasReturned(t))
            => LET d == result[t].detail
                   v == d["input_charge_voltage"][1]
                   c == d["input_charge_current"][1]
                   p == d["input_charge_power"][1]
               IN  /\ C24_Rounded(p, v * c, 1000)
                   /\ C24_Rounded(d["charge_voltage"][1], v, 10)
                   /\ C24_Rounded(d["charge_current"][1], c, 10)
                   /\ C24_Rounded(d["charge_power"][1], p, 10)
                   /\ (v = 4208 /\ c = 3008)
                         => /\ p = 12658
                            /\ d["charge_voltage"][1] = 421
                            /\ d["charge_current"][1] = 301
                            /\ d["charge_power"][1] = 1266

\* battery() has returned the BatteryInfo of a device that charges at 4208 mV
\* and 3008 mA: 12658 mW, which is 12.66 W.
C24_Witness ==
    \E t \in Tasks :
        /\ op[t] = "battery"
        /\ HasReturned(t)
        /\ result[t].detail["input_charge_voltage"] = Some(4208)
        /\ result[t].detail["input_charge_current"] = Some(3008)
        /\ result[t].detail["input_charge_power"] = Some(12658)
        /\ result[t].detail["charge_power"] = Some(1266)

\* The energy_saving() call of t is in flight.
C25_InFlight(t) == op[t] = "energy_saving" /\ ~Free(t)

\* The device has answered the PUT of the energy_saving() call of t with a
\* success, whose body the call has still to read.
C25_Written(t) == op[t] = "energy_saving" /\ stage[t] = "main" /\ pc[t] = "json"

\* C25: energy_saving() is not atomic. The client does nothing that keeps a
\* second call from beginning, and from sending its requests, while a first is
\* in flight between its read and its write; so both reads can come before both
\* writes, and the second write then carries the value the first call has
\* changed as it was before, and the device ends without the override of the
\* first call.
C25_NotAtomic ==
    \A t \in Tasks : \A u \in Tasks \ {t} :
        (Free(t) /\ C25_InFlight(u))
            => \A a \in RaceInputs : ENABLED energy_saving(t, a)

\* Two calls have read before either wrote, energy_saving(on=True) and
\* energy_saving(brightness=30), and the device has stored both writes: it
\* holds the brightness of the one and not the enable of the other.
C25_Witness ==
    \E t \in Tasks : \E u \in Tasks \ {t} :
        /\ C25_Written(t)
        /\ C25_Written(u)
        /\ args[t].on = Some(TRUE)
        /\ args[u].brightness = Some(30)
        /\ device.battery[1].energySaving.adjustBrightness.brightness = 30
        /\ device.battery[1].energySaving.enable = 0

\* In this step the request of t comes back with this status and these headers.
C26_Answered(t, status, headers) ==
    /\ pc[t] = "request"
    /\ \E body \in Bodies(inflight[t][1], headers, BatteryValues) :
          Response(t, status, headers, body)

\* The three outcomes of a request, as the step that ends it shows them: the
\* connection error, the unexpected response error, the decoded body handed to
\* the operation.
C26_ConnectionError(t) == pc[t] = "request" /\ C8_RaisesConnectionError(t)
C26_Unexpected(t) ==
    /\ pc[t] = "text"
    /\ pc'[t] = "done"
    /\ result'[t].kind = "raised"
    /\ result'[t].exc = "ElgatoError"
    /\ result'[t].msg = UnexpectedMessage
C26_Decoded(t) ==
    /\ pc[t] = "json"
    /\ \/ pc'[t] = "request" /\ Len(reqs'[t]) = Len(reqs[t]) + 1
       \/ pc'[t] = "done" /\ result'[t].exc \notin {"ElgatoConnectionError", "ElgatoError"}

\* In this step a request of t ends.
C26_Ends(t) ==
    \/ pc[t] = "request" /\ pc'[t] = "done"
    \/ pc[t] = "text" /\ pc'[t] # "text"
    \/ pc[t] = "json" /\ pc'[t] # "json"

\* The number of the three outcomes that this step shows.
C26_Count(t) ==
    (IF C26_ConnectionError(t) THEN 1 ELSE 0) + (IF C26_Unexpected(t) THEN 1 ELSE 0)
        + (IF C26_Decoded(t) THEN 1 ELSE 0)

C27_FetchFails(t) == stage[t] = "has_battery" /\ C21_RequestFails(t)

\* The call of t has ended with the failure of the fetch of has_battery().
C27_FetchFailed(t) ==
    /\ op[t] \in C11_Checked
    /\ pc[t] = "done"
    /\ result[t].kind = "raised"
    /\ result[t].exc \in {"ElgatoConnectionError", "ElgatoError"}
    /\ reqs[t] = <<SettingsGet>>
    /\ _has_battery = None

\* C27: a fetch of has_battery() that fails is not remembered: the error of the
\* settings request is raised to the caller of has_battery() or of the guarded
\* operation, the has-battery cache stays unset, and the has_battery() or
\* guarded call made next fetches the settings again.
C27_FailedFetchNotMemoized ==
    [][\A t \in Tasks :
          /\ C27_FetchFails(t)
                => /\ pc'[t] = "done"
                   /\ result'[t].kind = "raised"
                   /\ result'[t].exc \in {"ElgatoConnectionError", "ElgatoError"}
                   /\ reqs'[t] = <<SettingsGet>>
                   /\ _has_battery = None
                   /\ _has_battery' = None
          /\ (C27_FetchFailed(t) /\ Begins(t) /\ op'[t] \in C11_Checked /\ ~closed)
                => /\ pc'[t] = "request"
                   /\ stage'[t] = "has_battery"
                   /\ reqs'[t] = <<SettingsGet>>]_vars

\* The guard of battery() has fetched the settings, the request has timed out,
\* and the cache is unset.
C27_Witness ==
    \E t \in Tasks :
        /\ op[t] = "battery"
        /\ C27_FetchFailed(t)
        /\ result[t].msg = TimeoutMessage

\* In this step caller t calls an operation that sends a request at once.
C28_Requests(t) == Begins(t) /\ op'[t] \in {"info", "state"}

\* C28: a client constructed without a session makes at most one session in
\* its life, however the first requests of several callers interleave: the
\* session is made by the first request that finds none, with the ownership
\* flag set in the same step, and once there is a session it is never replaced
\* and the flag never changes. close() leaves the closed session in place: a
\* request made after it is tried on the closed session, which raises, and no
\* session is made anew.
C28_OneSession ==
    [][/\ session # "None" => (session' = session /\ _close_session' = _close_session)
       /\ session = "None"
             => \/ session' = "None" /\ _close_session' = FALSE
                \/ /\ session' = "internal"
                   /\ _close_session' = TRUE
                   /\ \E t \in Tasks : C28_Requests(t) /\ pc'[t] = "request"
       /\ closed => closed'
       /\ \A t \in Tasks :
             C28_Requests(t)
                 => IF closed
                    THEN /\ pc'[t] = "done"
                         /\ result'[t] = SessionClosed
                         /\ reqs'[t] = <<>>
                         /\ session' = "internal"
                    ELSE /\ pc'[t] = "request"
                         /\ session' = IF session = "None" THEN "internal" ELSE session]_vars

\* Two callers have made their first requests at the same time and one has
\* closed the client since: there is the one session, closed, and the request
\* the other made after that was refused by it.
C28_Witness ==
    \E t \in Tasks : \E u \in Tasks \ {t} :
        /\ op[t] = "close"
        /\ HasReturned(t)
        /\ op[u] = "info"
        /\ result[u] = SessionClosed
        /\ session = "internal"
        /\ _close_session
        /\ closed

\* In this step the energy_saving() call of t, past its guard, has read
\* settings that have no battery object.
C29_ReadsNoBattery(t) ==
    /\ op[t] = "energy_saving"
    /\ stage[t] = "battery_settings"
    /\ pc[t] = "json"
    /\ pc'[t] # "json"
    /\ resp[t].body.battery = None

\* C29: energy_saving() checks for the battery twice. When the guard has let
\* the call pass, from a cached true as well, and the settings the call reads
\* next have no battery object, the call raises ElgatoNoBatteryError and
\* issues no PUT, and the has-battery cache stays at true.
C29_EnergySavingChecksTwice ==
    [][\A t \in Tasks :
          C29_ReadsNoBattery(t)
              => /\ _has_battery = Some(TRUE)
                 /\ pc'[t] = "done"
                 /\ result'[t] = ElgatoNoBatteryError
                 /\ reqs'[t] = reqs[t]
                 /\ ~InLog(reqs'[t], SettingsPut)
                 /\ inflight'[t] = None
                 /\ _has_battery' = Some(TRUE)]_vars

\* energy_saving() has passed its guard on the cached true, without a fetch,
\* and has raised ElgatoNoBatteryError after its own read of the settings.
C29_Witness ==
    \E t \in Tasks :
        /\ op[t] = "energy_saving"
        /\ pc[t] = "done"
        /\ result[t] = ElgatoNoBatteryError
        /\ reqs[t] = <<SettingsGet>>
        /\ _has_battery = Some(TRUE)

\* In this step the device stores the PUT of the energy_saving() call of t.
C30_Stores(t) ==
    /\ op[t] = "energy_saving"
    /\ stage[t] = "main"
    /\ pc[t] = "request"
    /\ pc'[t] \in {"json", "text"}

\* The energy saving settings the device holds.
C30_Held == device.battery[1].energySaving

\* C30: when the calls follow one another and the device stores what is
\* written and has no other writer, no update is lost. Each energy_saving()
\* call whose write is stored sets the fields it overrides to the values given
\* and leaves every other energy saving field as the device held it, and no
\* other step changes an energy saving field; so after any sequence of calls
\* each field has the value of the last call that overrode it, or the value it
\* had at first.
C30_SerializedNoLostUpdate ==
    [][/\ (device.battery = None) = (device'.battery = None)
       /\ device.battery # None
             => IF \E t \in Tasks : C30_Stores(t)
                THEN \A t \in Tasks :
                        C30_Stores(t) => C30_Held' = C17_Merged(C30_Held, args[t])
                ELSE C30_Held' = C30_Held]_vars

\* energy_saving(on=False) was stored after a call that set the minimum
\* battery level to 20: the device holds that level still, with the enable of
\* the last call.
C30_Witness ==
    \E t \in Tasks :
        /\ op[t] = "energy_saving"
        /\ stage[t] = "main"
        /\ pc[t] = "json"
        /\ args[t] = [NoArgs EXCEPT !.on = Some(FALSE)]
        /\ device.battery # None
        /\ device.battery[1].energySaving = EnergySaving(0, 20, 0, 0, 10)

====
